---- MODULE Spec2Model ----
(***************************************************************************)
(* The asset metadata resolution engine of fairseq2:                       *)
(* fairseq2/assets/store.py, class StandardAssetStore; with the asset      *)
(* listing command of fairseq2/recipes/assets.py and get_module_size of    *)
(* fairseq2/nn/utils/module.py.                                            *)
(*                                                                         *)
(* Strings are sequences of character tokens, so that the test             *)
(* `"@" in name` and the formatting f"{name}@{env}" are computed, not      *)
(* assumed.  A Python value is a record [type, v]; a dict is a function    *)
(* whose DOMAIN is the set of its keys.                                     *)
(***************************************************************************)
EXTENDS Integers, Sequences, FiniteSets, TLC

VARIABLES
    env_resolvers,            \* StandardAssetStore.env_resolvers
    metadata_providers,       \* StandardAssetStore.metadata_providers
    user_metadata_providers,  \* StandardAssetStore.user_metadata_providers
    fs,                       \* what each package / directory holds right now
    result,                   \* outcome of the last store operation
    catalog,                  \* what the asset store of the listing command holds
    listing,                  \* what the last _dump_assets call printed
    module,                   \* the parameters and buffers of a torch module
    info                      \* what get_module_size returned for it

\* the state of the listing command and of the module under measure
toolVars == <<catalog, listing, module, info>>

vars == <<env_resolvers, metadata_providers, user_metadata_providers, fs, result, toolVars>>

----------------------------------------------------------------------------
(* Bounds *)

\* providers and environment resolvers registered after construction
MaxRegistrations == 2

\* names the asset store of the listing command holds
MaxNames == 2

\* parameters of a module, and buffers of a module
MaxTensors == 2

----------------------------------------------------------------------------
(* Python values *)

Str(s) == [type |-> "str", v |-> s]

NoneVal == [type |-> "NoneType", v |-> <<>>]

IntVal(d) == [type |-> "int", v |-> <<d>>]

NonEmptyList == [type |-> "list", v |-> <<"x">>]

\* isinstance(x, str)
IsStr(x) == x.type = "str"

\* bool(x): None, 0, False, "" and empty containers are falsy
Truthy(x) ==
    CASE x.type = "NoneType" -> FALSE
      [] x.type = "int"      -> x.v # <<"0">>
      [] x.type = "bool"     -> x.v # <<"False">>
      [] OTHER               -> x.v # <<>>

\* a test that never sees the reserved character
HasAtNever(name) == FALSE

\* "@" in name
HasAt(name) == \E i \in 1..Len(name) : name[i] = "@"

\* f"{name}@{env}"
EnvName(name, env) == name \o <<"@">> \o env

----------------------------------------------------------------------------
(* Names, environments and records the model draws from *)

NameM == <<"m">>

NameP == <<"p">>

EnvProd == <<"p", "r", "o", "d">>

EnvUser == <<"u", "s", "e", "r">>

BareNames == {NameM, NameP}

\* names handed to retrieve_card
RequestNames == BareNames \cup {EnvName(NameM, EnvProd)}

\* a metadata record: always has 'name'; the other fields are optional
Rec(name, rest) == [f \in {"name"} \cup DOMAIN rest |-> IF f = "name" THEN Str(name) ELSE rest[f]]

NoFields == [f \in {} |-> NoneVal]

Fld(f, val) == [g \in {f} |-> val]

EmptyTable == [k \in {} |-> NoFields]

\* the table made of a set of <<name, record>> entries with distinct names
TableFrom(entries) == [k \in {e[1] : e \in entries} |-> (CHOOSE e \in entries : e[1] = k)[2]]

\* the package bundled with the software, named at store.py:169
Packages == {"fairseq2.assets.cards"}

\* directories handed to add_file_metadata_provider
Dirs == {"/etc/fairseq2/assets"}

Sources == Packages \cup Dirs

\* the records the bundled package can hold for m and for p; it always holds
\* the variant m@prod, whose 'name' is its own name
PackageRecordsM ==
    { Rec(NameM, Fld("a", IntVal("1")) @@ Fld("b", IntVal("2"))),
      Rec(NameM, Fld("base", Str(NameP)) @@ Fld("a", IntVal("1"))),
      Rec(NameM, Fld("base", Str(NameM))),
      Rec(NameM, Fld("base", IntVal("0"))) }

PackageRecordsP ==
    { Rec(NameP, Fld("a", IntVal("2")) @@ Fld("b", IntVal("3"))),
      Rec(NameP, Fld("base", Str(NameM)) @@ Fld("b", IntVal("3"))),
      Rec(NameP, Fld("base", NonEmptyList)) }

RecordMProd == Rec(EnvName(NameM, EnvProd), Fld("b", IntVal("9")))

PackageTables ==
    LET withM == {TableFrom({<<NameM, rm>>, <<EnvName(NameM, EnvProd), RecordMProd>>}) :
                      rm \in PackageRecordsM}
    IN  withM \cup {t @@ TableFrom({<<NameP, rp>>}) : t \in withM, rp \in PackageRecordsP}

DirTables ==
    { TableFrom({<<NameM, Rec(NameM, Fld("a", IntVal("5")))>>,
                 <<EnvName(NameM, EnvUser),
                   Rec(EnvName(NameM, EnvUser), Fld("b", IntVal("8")))>>}),
      TableFrom({<<NameM, Rec(NameM, Fld("a", IntVal("6")))>>,
                 <<EnvName(NameM, EnvUser),
                   Rec(EnvName(NameM, EnvUser), Fld("base", Str(NameP)))>>,
                 <<EnvName(NameP, EnvUser),
                   Rec(EnvName(NameP, EnvUser), Fld("b", IntVal("7")))>>}) }

\* what a scan finds in a malformed source: a record without the mandatory 'name'
MalformedTable == TableFrom({<<NameM, NoFields>>})

\* the contents a source can have
TablesOf(src) == IF src \in Packages THEN PackageTables ELSE DirTables

----------------------------------------------------------------------------
(* Metadata providers: fairseq2/assets/metadata_provider.py *)

\* a provider that has not scanned its source yet
NewProvider(kind, path) == [kind |-> kind, path |-> path, loaded |-> FALSE, cache |-> EmptyTable]

\* the table a provider answers from: its cache, filled by a scan on first use
Scan(prov, f) == IF prov.loaded THEN prov.cache ELSE f[prov.path]

\* a provider that hands out the records of its cache themselves, so that the
\* store's `del env_metadata["name"]` reaches into the cache
LoadedAliased(prov, f) ==
    [prov EXCEPT !.loaded = TRUE,
                 !.cache = [k \in DOMAIN Scan(prov, f) |->
                               IF \E i \in 1..Len(k) : k[i] = "@"
                               THEN [g \in DOMAIN Scan(prov, f)[k] \ {"name"} |->
                                        Scan(prov, f)[k][g]]
                               ELSE Scan(prov, f)[k]]]

\* the scan of the provider's source fails: a record lacks 'name'
Broken(prov, f) == ~prov.loaded /\ \E k \in DOMAIN f[prov.path] : "name" \notin DOMAIN f[prov.path][k]

\* the provider after it answered one get_metadata call; a failed scan leaves
\* no cache
Loaded(prov, f) ==
    IF Broken(prov, f)
    THEN prov
    ELSE [prov EXCEPT !.loaded = TRUE, !.cache = Scan(prov, f)]

\* provider.clear_cache()
Cleared(prov) == [prov EXCEPT !.loaded = FALSE, !.cache = EmptyTable]

\* provider.get_metadata(name): a fresh copy of the record, AssetNotFoundError
\* (err = ""), or the configuration error of a failed scan
ProviderGetMetadata(prov, name, f) ==
    LET t == Scan(prov, f)
    IN  IF Broken(prov, f)
        THEN [found |-> FALSE, md |-> NoFields, err |-> "AssetMetadataError"]
        ELSE IF name \in DOMAIN t
        THEN [found |-> TRUE, md |-> t[name], err |-> ""]
        ELSE [found |-> FALSE, md |-> NoFields, err |-> ""]

----------------------------------------------------------------------------
(* dict operations *)

\* a del that removes nothing
DelNothing(d, key) == d

\* del d[key]
Del(d, key) == [f \in DOMAIN d \ {key} |-> d[f]]

\* an update that keeps the fields d already has
UpdateKeepOld(d, e) == [f \in DOMAIN d \cup DOMAIN e |-> IF f \in DOMAIN d THEN d[f] ELSE e[f]]

\* d.update(e)
Update(d, e) == [f \in DOMAIN d \cup DOMAIN e |-> IF f \in DOMAIN e THEN e[f] ELSE d[f]]

----------------------------------------------------------------------------
(* StandardAssetStore *)

\* the state the lookups read
Store(U, G, f) == [user |-> U, global |-> G, fs |-> f]

\* a search that walks the list in registration order, oldest first
SearchOldestFirst(scope, list, i, name, f) ==
    LET hits == {j \in 1..i : ProviderGetMetadata(list[j], name, f).found}
        last == IF hits = {} THEN i ELSE CHOOSE j \in hits : \A k \in hits : j <= k
    IN  [found  |-> hits # {},
         md     |-> IF hits = {} THEN NoFields ELSE ProviderGetMetadata(list[last], name, f).md,
         err    |-> "",
         probes |-> [j \in 1..last |-> [scope |-> scope, idx |-> j, key |-> name]]]

\* a search that takes every error of a provider for not-found
RECURSIVE SearchCatchingAll(_, _, _, _, _)
SearchCatchingAll(scope, list, i, name, f) ==
    IF i = 0
    THEN [found |-> FALSE, md |-> NoFields, err |-> "", probes |-> <<>>]
    ELSE LET got   == ProviderGetMetadata(list[i], name, f)
             probe == [scope |-> scope, idx |-> i, key |-> name]
         IN  IF got.found
             THEN [found |-> TRUE, md |-> got.md, err |-> "", probes |-> <<probe>>]
             ELSE LET rest == SearchCatchingAll(scope, list, i - 1, name, f)
                  IN  [rest EXCEPT !.probes = <<probe>> \o @]

\* the get_metadata calls `probes`, then those of the lookup that gave `rest`
AfterAsking(probes, rest) == [rest EXCEPT !.probes = probes \o @]

RECURSIVE SearchProviders(_, _, _, _, _)

\* one turn of the loop: list[i] answered `got`; the loop goes on to the next
\* provider on AssetNotFoundError only
SearchFrom(scope, list, i, name, f, got, probe) ==
    IF got.found \/ got.err # ""
    THEN [found |-> got.found, md |-> got.md, err |-> got.err, probes |-> <<probe>>]
    ELSE AfterAsking(<<probe>>, SearchProviders(scope, list, i - 1, name, f))

\* for provider in reversed(list): try provider.get_metadata(name)
SearchProviders(scope, list, i, name, f) ==
    IF i = 0
    THEN [found |-> FALSE, md |-> NoFields, err |-> "", probes |-> <<>>]
    ELSE SearchFrom(scope, list, i, name, f, ProviderGetMetadata(list[i], name, f),
                    [scope |-> scope, idx |-> i, key |-> name])

\* a lookup that asks the global scope before the user scope
GetMetadataGlobalFirst(name, st) ==
    LET g == SearchProviders("global", st.global, Len(st.global), name, st.fs)
    IN  IF g.found \/ g.err # ""
        THEN g
        ELSE LET u == SearchProviders("user", st.user, Len(st.user), name, st.fs)
             IN  [u EXCEPT !.probes = g.probes \o @]

\* the second loop of _get_metadata, reached when the first, which gave u,
\* ended without a record and without an error
GlobalAfterUser(u, name, st) ==
    IF u.found \/ u.err # ""
    THEN u
    ELSE AfterAsking(u.probes,
                     SearchProviders("global", st.global, Len(st.global), name, st.fs))

\* StandardAssetStore._get_metadata
GetMetadata(name, st) ==
    GlobalAfterUser(SearchProviders("user", st.user, Len(st.user), name, st.fs), name, st)

\* StandardAssetStore._resolve_envs; a resolver is modelled by the value it returns
RECURSIVE ResolveFrom(_, _)
ResolveFrom(resolvers, i) ==
    IF i > Len(resolvers)
    THEN <<EnvUser>>
    ELSE IF Truthy(resolvers[i])
         THEN <<resolvers[i].v>> \o ResolveFrom(resolvers, i + 1)
         ELSE ResolveFrom(resolvers, i + 1)

\* a resolution that puts the fixed "user" environment first
ResolveEnvsUserFirst(resolvers) ==
    LET envs == ResolveFrom(resolvers, 1)
    IN  <<EnvUser>> \o SubSeq(envs, 1, Len(envs) - 1)

ResolveEnvs(resolvers) == ResolveFrom(resolvers, 1)

\* a loop that gives up at the first environment without a record
RECURSIVE MergeEnvsStopAtMissing(_, _, _, _, _)
MergeEnvsStopAtMissing(metadata, name, envs, i, st) ==
    IF i > Len(envs)
    THEN [kind |-> "ok", md |-> metadata, probes |-> <<>>]
    ELSE LET got == GetMetadata(EnvName(name, envs[i]), st)
         IN  IF ~got.found
             THEN [kind |-> "ok", md |-> metadata, probes |-> got.probes]
             ELSE LET rest == MergeEnvsStopAtMissing(Update(metadata, Del(got.md, "name")),
                                                     name, envs, i + 1, st)
                  IN  [rest EXCEPT !.probes = got.probes \o @]

RECURSIVE MergeEnvs(_, _, _, _, _)

\* one turn of the loop: the lookup of name@envs[i] gave `got`
MergeEnv(metadata, name, envs, i, st, got) ==
    IF got.err # ""
    THEN [kind |-> got.err, md |-> metadata, probes |-> got.probes]
    ELSE IF ~got.found
    THEN AfterAsking(got.probes, MergeEnvs(metadata, name, envs, i + 1, st))
    ELSE IF "name" \notin DOMAIN got.md
    THEN [kind |-> "KeyError", md |-> metadata, probes |-> got.probes]
    ELSE AfterAsking(got.probes,
                     MergeEnvs(Update(metadata, Del(got.md, "name")), name, envs, i + 1, st))

\* the loop of _do_retrieve_card over envs, from position i on
MergeEnvs(metadata, name, envs, i, st) ==
    IF i > Len(envs)
    THEN [kind |-> "ok", md |-> metadata, probes |-> <<>>]
    ELSE MergeEnv(metadata, name, envs, i, st, GetMetadata(EnvName(name, envs[i]), st))

\* a lookup of 'base' that never finds it
BaseNameNever(metadata) == NoneVal

\* try: base_name = metadata["base"] except KeyError: base_name = None
BaseNameOf(metadata) == IF "base" \in DOMAIN metadata THEN metadata["base"] ELSE NoneVal

\* the interpreter gives up on a call chain this deep; no chain without a
\* repeated name is deeper than the number of names that have records
RecursionLimit == Cardinality(BareNames) + 1

\* a parent resolved without any environment
EnvsForBaseNone(envs) == <<>>

\* the environment list handed on to the parent's resolution: the caller's own
EnvsForBase(envs) == envs

Outcome(kind, card, who, probes) == [kind |-> kind, card |-> card, who |-> who, probes |-> probes]

RECURSIVE DoRetrieveCard(_, _, _, _)

\* AssetCard(metadata, base_card), base being what the parent's resolution
\* gave; an error of that resolution is the error of this one
CardOver(name, md, probes, base) ==
    IF base.kind = "card"
    THEN Outcome("card", <<md>> \o base.card, name, probes \o base.probes)
    ELSE AfterAsking(probes, base)

\* _do_retrieve_card from the read of 'base' on, md being the merged metadata
WithBase(name, envs, depth, st, md, probes, base_name) ==
    IF ~Truthy(base_name)
    THEN Outcome("card", <<md>>, name, probes)
    ELSE IF ~IsStr(base_name)
    THEN Outcome("AssetCardError", <<>>, name, probes)
    ELSE CardOver(name, md, probes,
                  DoRetrieveCard(base_name.v, EnvsForBase(envs), depth + 1, st))

\* _do_retrieve_card after the loop over envs, which gave `merged`
WithMerged(name, envs, depth, st, probes, merged) ==
    IF merged.kind # "ok"
    THEN Outcome(merged.kind, <<>>, name, probes \o merged.probes)
    ELSE WithBase(name, envs, depth, st, merged.md, probes \o merged.probes,
                  BaseNameOf(merged.md))

\* _do_retrieve_card after the lookup of the bare name, which gave `got`
WithBare(name, envs, depth, st, got) ==
    IF ~got.found
    THEN Outcome(IF got.err # "" THEN got.err ELSE "AssetNotFoundError",
                 <<>>, name, got.probes)
    ELSE WithMerged(name, envs, depth, st, got.probes, MergeEnvs(got.md, name, envs, 1, st))

\* StandardAssetStore._do_retrieve_card; a card is the sequence of the merged
\* metadata of the asset and of its ancestors, nearest first
DoRetrieveCard(name, envs, depth, st) ==
    IF depth > RecursionLimit
    THEN Outcome("RecursionError", <<>>, name, <<>>)
    ELSE WithBare(name, envs, depth, st, GetMetadata(name, st))

\* a resolver that raises instead of returning
RaisingResolver == [type |-> "raises", v |-> <<"RuntimeError">>]

\* what the last operation left in `result`
Result(op, name, out, envs) ==
    [op |-> op, name |-> name, kind |-> out.kind, card |-> out.card,
     who |-> out.who, probes |-> out.probes, envs |-> envs]

\* no retrieve_card call since the last other operation
NoResult == Result("none", <<>>, Outcome("None", <<>>, <<>>, <<>>), <<>>)

\* the providers of one scope after the get_metadata calls in probes
AfterProbes(scope, list, probes, f) ==
    [i \in 1..Len(list) |->
        IF \E j \in 1..Len(probes) : probes[j].scope = scope /\ probes[j].idx = i
        THEN Loaded(list[i], f)
        ELSE list[i]]

\* registrations made since the store was built with its one provider
NumRegistrations ==
    Len(metadata_providers) - 1 + Len(user_metadata_providers) + Len(env_resolvers)

----------------------------------------------------------------------------
(* AssetListCommandHandler: fairseq2/recipes/assets.py *)

\* the least of a set of positions
SetMinOf(S) == CHOOSE x \in S : \A y \in S : x <= y

\* the characters of the model's strings, in code point order
Alphabet ==
    <<" ", "@", "a", "b", "c", "d", "e", "f", "g", "h", "i", "j", "k", "l", "m",
      "n", "o", "p", "q", "r", "s", "t", "u", "v", "w", "x", "y", "z">>

\* ord(c), up to an order-preserving renumbering
Code(c) == CHOOSE i \in 1..Len(Alphabet) : Alphabet[i] = c

\* s < t on Python strings
RECURSIVE StrLess(_, _)
StrLess(s, t) ==
    IF t = <<>>
    THEN FALSE
    ELSE IF s = <<>>
    THEN TRUE
    ELSE IF s[1] # t[1]
    THEN Code(s[1]) < Code(t[1])
    ELSE StrLess(Tail(s), Tail(t))

\* one step of list.sort: x goes behind every element whose key is not greater
RECURSIVE InsertByKey(_, _)
InsertByKey(sorted, x) ==
    IF sorted = <<>>
    THEN <<x>>
    ELSE IF StrLess(x[1], Head(sorted)[1])
    THEN <<x>> \o sorted
    ELSE <<Head(sorted)>> \o InsertByKey(Tail(sorted), x)

\* list.sort on <<key, item>> pairs: ascending by key, stable
RECURSIVE SortByKey(_)
SortByKey(pairs) ==
    IF pairs = <<>>
    THEN <<>>
    ELSE InsertByKey(SortByKey(SubSeq(pairs, 1, Len(pairs) - 1)), pairs[Len(pairs)])

\* names.sort(key=lambda e: e[0]): e is a name, e[0] its first character
SortNames(names) ==
    LET sorted == SortByKey([i \in 1..Len(names) |-> <<<<names[i][1]>>, names[i]>>])
    IN  [i \in 1..Len(names) |-> sorted[i][2]]

\* assets.sort(key=lambda e: e[0]): e is a (source, names) pair, e[0] the source
SortAssets(assets) ==
    LET sorted == SortByKey([i \in 1..Len(assets) |-> <<assets[i][1], assets[i]>>])
    IN  [i \in 1..Len(assets) |-> sorted[i][2]]

\* name.find("@") and name[:env_at]
AssetBaseName(name) ==
    LET ats == {i \in 1..Len(name) : name[i] = "@"}
    IN  IF ats = {} THEN name ELSE SubSeq(name, 1, SetMinOf(ats) - 1)

\* asset_store.retrieve_names(user=user)
RetrieveNames(cat, user) ==
    LET kept == SelectSeq(cat.names, LAMBDA e : e.user = user)
    IN  [i \in 1..Len(kept) |-> kept[i].name]

\* asset_store.retrieve_card(base_name, ignore_envs=...).metadata: the
\* '__source__' of the card, None when the card has none
CardSource(cat, base_name, ignore_envs) == cat.cards[<<base_name, ignore_envs>>]

UnknownSource == <<"u", "n", "k", "n", "o", "w", "n", " ", "s", "o", "u", "r", "c", "e">>

\* the loop of _retrieve_assets over the first n names
RECURSIVE RetrieveAssetsFrom(_, _, _)
RetrieveAssetsFrom(cat, asset_names, n) ==
    IF n = 0
    THEN <<>>
    ELSE LET assets    == RetrieveAssetsFrom(cat, asset_names, n - 1)
             name      == asset_names[n]
             base_name == AssetBaseName(name)
             card      == CardSource(cat, base_name, base_name = name)
             source    == IF card = NoneVal THEN UnknownSource ELSE card.v
             at        == {g \in 1..Len(assets) : assets[g][1] = source}
         IN  IF at = {}
             THEN Append(assets, <<source, <<name>>>>)
             ELSE [g \in 1..Len(assets) |->
                      IF g \in at THEN <<source, Append(assets[g][2], name)>> ELSE assets[g]]

\* AssetListCommandHandler._retrieve_assets
RetrieveAssets(cat, user) ==
    RetrieveAssetsFrom(cat, RetrieveNames(cat, user), Len(RetrieveNames(cat, user)))

\* what AssetListCommandHandler._dump_assets prints: the sources and under
\* each its names, top to bottom; <<>> for "n/a"
DumpedAssets(cat, user) ==
    LET assets == RetrieveAssets(cat, user)
    IN  IF assets # <<>>
        THEN LET sorted == SortAssets(assets)
             IN  [g \in 1..Len(sorted) |-> <<sorted[g][1], SortNames(sorted[g][2])>>]
        ELSE <<>>

\* the names the store of the listing command can hold
ListNames == {<<"m", "b">>, <<"m", "a">>, <<"m", "a", "@", "x">>, <<"p">>}

\* the '__source__' a card can carry
SourceValues == {Str(<<"p", "k", "g">>), Str(<<"d", "i", "r">>), NoneVal}

\* the keys retrieve_card is called with for these names
CardKeys(names) ==
    {<<AssetBaseName(names[i].name), AssetBaseName(names[i].name) = names[i].name>> :
         i \in 1..Len(names)}

\* the stores the listing command is run on: up to MaxNames distinct names,
\* each of the user or of the global scope, and a card for each
Catalogs ==
    LET entries == [name : ListNames, user : BOOLEAN]
        seqs    == {ns \in UNION {[1..n -> entries] : n \in 0..MaxNames} :
                       \A i, j \in 1..Len(ns) : ns[i].name = ns[j].name => i = j}
    IN  UNION {{[names |-> ns, cards |-> c] : c \in [CardKeys(ns) -> SourceValues]} :
                   ns \in seqs}

NoCatalog == [names |-> <<>>, cards |-> [k \in {} |-> NoneVal]]

NoListing == [op |-> "none", user |-> FALSE, groups |-> <<>>]

\* AssetListCommandHandler._dump_assets
DumpAssets(user) ==
    /\ listing' = [op |-> "_dump_assets", user |-> user, groups |-> DumpedAssets(catalog, user)]
    /\ UNCHANGED <<env_resolvers, metadata_providers, user_metadata_providers, fs, result,
                   catalog, module, info>>

----------------------------------------------------------------------------
(* get_module_size: fairseq2/nn/utils/module.py *)

\* ModuleSizeInfo()
ZeroSizeInfo ==
    [param_size |-> 0, param_size_bytes |-> 0,
     trainable_param_size |-> 0, trainable_param_size_bytes |-> 0,
     buffer_size |-> 0, buffer_size_bytes |-> 0,
     total_size |-> 0, total_size_bytes |-> 0]

\* the loop over module.parameters(), after the first n of them
RECURSIVE ParamLoop(_, _)
ParamLoop(params, n) ==
    IF n = 0
    THEN ZeroSizeInfo
    ELSE LET prev       == ParamLoop(params, n - 1)
             param      == params[n]
             size       == param.numel
             size_bytes == size * param.element_size
         IN  [prev EXCEPT
                 !.param_size = @ + size,
                 !.param_size_bytes = @ + size_bytes,
                 !.trainable_param_size = IF param.requires_grad THEN @ + size ELSE @,
                 !.trainable_param_size_bytes =
                     IF param.requires_grad THEN @ + size_bytes ELSE @,
                 !.total_size = @ + size,
                 !.total_size_bytes = @ + size_bytes]

\* the loop over module.buffers(), after the first n of them; `param` is what
\* the loop over the parameters left in that variable
RECURSIVE BufferLoop(_, _, _, _)
BufferLoop(start, buffers, n, param) ==
    IF n = 0
    THEN start
    ELSE LET prev       == BufferLoop(start, buffers, n - 1, param)
             buffer     == buffers[n]
             size       == buffer.numel
             size_bytes == size * param.element_size
         IN  [prev EXCEPT
                 !.buffer_size = @ + size,
                 !.buffer_size_bytes = @ + size * size_bytes,
                 !.total_size = @ + size,
                 !.total_size_bytes = @ + size_bytes]

\* get_module_size(module); with buffers and no parameter the name `param`
\* is unbound when the second loop reads it
GetModuleSize(mod) ==
    LET after == ParamLoop(mod.params, Len(mod.params))
    IN  IF mod.buffers # <<>> /\ mod.params = <<>>
        THEN [kind |-> "UnboundLocalError", size |-> ZeroSizeInfo]
        ELSE [kind |-> "ModuleSizeInfo",
              size |-> IF mod.buffers = <<>>
                       THEN after
                       ELSE BufferLoop(after, mod.buffers, Len(mod.buffers),
                                       mod.params[Len(mod.params)])]

\* the tensors a module can hold
ParamValues == [numel : {1, 3}, element_size : {2, 4}, requires_grad : BOOLEAN]

BufferValues == [numel : {2, 3}, element_size : {1, 8}]

\* modules of up to MaxTensors parameters and up to MaxTensors buffers
Modules ==
    [params  : UNION {[1..n -> ParamValues] : n \in 0..MaxTensors},
     buffers : UNION {[1..n -> BufferValues] : n \in 0..MaxTensors}]

NoModule == [params |-> <<>>, buffers |-> <<>>]

NoInfo == [kind |-> "none", size |-> ZeroSizeInfo]

\* info = get_module_size(module)
MeasureModule ==
    /\ info' = GetModuleSize(module)
    /\ UNCHANGED <<env_resolvers, metadata_providers, user_metadata_providers, fs, result,
                   catalog, listing, module>>

----------------------------------------------------------------------------
(* The store, its operations and the two tools *)

\* no listing made and no module measured
ToolsAtRest ==
    /\ catalog = NoCatalog
    /\ listing = NoListing
    /\ module = NoModule
    /\ info = NoInfo

\* StandardAssetStore.__init__ with the provider of _create_default_asset_store
Init ==
    /\ env_resolvers = <<>>
    /\ metadata_providers = <<NewProvider("package", "fairseq2.assets.cards")>>
    /\ user_metadata_providers = <<>>
    /\ fs \in {f \in [Sources -> UNION {TablesOf(s) : s \in Sources}] :
                   \A s \in Sources : f[s] \in TablesOf(s)}
    /\ result = NoResult
    /\ ToolsAtRest

\* the end of a retrieve_card call that got as far as _do_retrieve_card: the
\* outcome goes to the caller, and the providers asked have scanned
Returned(name, envs, out) ==
    /\ result' = Result("retrieve_card", name, out, envs)
    /\ metadata_providers' = AfterProbes("global", metadata_providers, out.probes, fs)
    /\ user_metadata_providers' = AfterProbes("user", user_metadata_providers, out.probes, fs)
    /\ UNCHANGED <<env_resolvers, fs, toolVars>>

\* StandardAssetStore.retrieve_card
RetrieveCard(name) ==
    IF HasAt(name)
    THEN /\ result' = Result("retrieve_card", name,
                             Outcome("ValueError", <<>>, name, <<>>), <<>>)
         /\ UNCHANGED <<env_resolvers, metadata_providers, user_metadata_providers, fs, toolVars>>
    ELSE IF \E i \in 1..Len(env_resolvers) : env_resolvers[i] = RaisingResolver
    THEN /\ result' = Result("retrieve_card", name,
                             Outcome("ResolverError", <<>>, name, <<>>), <<>>)
         /\ UNCHANGED <<env_resolvers, metadata_providers, user_metadata_providers, fs, toolVars>>
    ELSE Returned(name, ResolveEnvs(env_resolvers),
                  DoRetrieveCard(name, ResolveEnvs(env_resolvers), 1,
                                 Store(user_metadata_providers, metadata_providers, fs)))

\* retrieve_card(name, ignore_envs=flag), the call of recipes/assets.py:78-80:
\* the method of store.py:57 has the one parameter `name`, so the interpreter
\* rejects the keyword before the body runs
RetrieveCardIgnoreEnvs(name, ignore_envs) ==
    /\ result' = Result("retrieve_card(ignore_envs)", name,
                        Outcome("TypeError", <<>>, name, <<>>), <<>>)
    /\ UNCHANGED <<env_resolvers, metadata_providers, user_metadata_providers, fs, toolVars>>

\* a clear_cache that forwards to the global-scope providers only
ClearCacheGlobalOnly ==
    /\ metadata_providers' =
           [i \in 1..Len(metadata_providers) |-> Cleared(metadata_providers[i])]
    /\ result' = NoResult
    /\ UNCHANGED <<env_resolvers, user_metadata_providers, fs, toolVars>>

\* StandardAssetStore.clear_cache
ClearCache ==
    /\ metadata_providers' =
           [i \in 1..Len(metadata_providers) |-> Cleared(metadata_providers[i])]
    /\ user_metadata_providers' =
           [i \in 1..Len(user_metadata_providers) |-> Cleared(user_metadata_providers[i])]
    /\ result' = NoResult
    /\ UNCHANGED <<env_resolvers, fs, toolVars>>

\* an add_file_metadata_provider that takes no notice of `user`
AddFileToGlobalScope(path, user) ==
    /\ NumRegistrations < MaxRegistrations
    /\ metadata_providers' = Append(metadata_providers, NewProvider("file", path))
    /\ result' = NoResult
    /\ UNCHANGED <<env_resolvers, user_metadata_providers, fs, toolVars>>

\* StandardAssetStore.add_file_metadata_provider
AddFileMetadataProvider(path, user) ==
    /\ NumRegistrations < MaxRegistrations
    /\ IF user
       THEN /\ user_metadata_providers' =
                   Append(user_metadata_providers, NewProvider("file", path))
            /\ UNCHANGED metadata_providers
       ELSE /\ metadata_providers' = Append(metadata_providers, NewProvider("file", path))
            /\ UNCHANGED user_metadata_providers
    /\ result' = NoResult
    /\ UNCHANGED <<env_resolvers, fs, toolVars>>

\* StandardAssetStore.add_package_metadata_provider
AddPackageMetadataProvider(package_name) ==
    /\ NumRegistrations < MaxRegistrations
    /\ metadata_providers' = Append(metadata_providers, NewProvider("package", package_name))
    /\ result' = NoResult
    /\ UNCHANGED <<env_resolvers, user_metadata_providers, fs, toolVars>>

\* the values the registered resolvers return
ResolverValues == {NoneVal, Str(EnvProd)}

\* store.env_resolvers.append(resolver)
AppendEnvResolver(resolver) ==
    /\ NumRegistrations < MaxRegistrations
    /\ env_resolvers' = Append(env_resolvers, resolver)
    /\ result' = NoResult
    /\ UNCHANGED <<metadata_providers, user_metadata_providers, fs, toolVars>>

\* the files under a directory change on disk; the bundled package does not
MutateSource(path, table) ==
    /\ fs[path] # table
    /\ fs' = [fs EXCEPT ![path] = table]
    /\ result' = NoResult
    /\ UNCHANGED <<env_resolvers, metadata_providers, user_metadata_providers, toolVars>>

Next ==
    \/ \E name \in RequestNames : RetrieveCard(name)
    \/ ClearCache
    \/ \E path \in Dirs, user \in BOOLEAN : AddFileMetadataProvider(path, user)
    \/ \E package_name \in Packages : AddPackageMetadataProvider(package_name)
    \/ \E resolver \in ResolverValues : AppendEnvResolver(resolver)
    \/ \E path \in Dirs : \E table \in TablesOf(path) : MutateSource(path, table)

Spec == Init /\ [][Next]_vars

\* the same store with what makes its calls fail for other reasons than a
\* missing record: sources that can be malformed, resolvers that can raise, and
\* the call with the keyword retrieve_card does not take; the bundled package
\* holds a sound table or a malformed one, a directory any of its tables or a
\* malformed one
PackageTablesErr ==
    { TableFrom({<<NameM, Rec(NameM, Fld("base", Str(NameP)) @@ Fld("a", IntVal("1")))>>,
                 <<EnvName(NameM, EnvProd), RecordMProd>>,
                 <<NameP, Rec(NameP, Fld("a", IntVal("2")) @@ Fld("b", IntVal("3")))>>}),
      MalformedTable }

TablesErrOf(src) ==
    IF src \in Packages THEN PackageTablesErr ELSE DirTables \cup {MalformedTable}

InitErr ==
    /\ env_resolvers = <<>>
    /\ metadata_providers = <<NewProvider("package", "fairseq2.assets.cards")>>
    /\ user_metadata_providers = <<>>
    /\ fs \in {f \in [Sources -> UNION {TablesErrOf(s) : s \in Sources}] :
                   \A s \in Sources : f[s] \in TablesErrOf(s)}
    /\ result = NoResult
    /\ ToolsAtRest

NextErr ==
    \/ \E name \in BareNames : RetrieveCard(name)
    \/ \E name \in BareNames, ignore_envs \in BOOLEAN : RetrieveCardIgnoreEnvs(name, ignore_envs)
    \/ ClearCache
    \/ \E path \in Dirs, user \in BOOLEAN : AddFileMetadataProvider(path, user)
    \/ \E package_name \in Packages : AddPackageMetadataProvider(package_name)
    \/ \E resolver \in {Str(EnvProd), RaisingResolver} : AppendEnvResolver(resolver)
    \/ \E path \in Dirs : \E table \in TablesErrOf(path) : MutateSource(path, table)

SpecErr == InitErr /\ [][NextErr]_vars

\* a store just built, on which nothing has been called
StoreAtRest ==
    /\ env_resolvers = <<>>
    /\ metadata_providers = <<NewProvider("package", "fairseq2.assets.cards")>>
    /\ user_metadata_providers = <<>>
    /\ fs = [s \in Sources |-> CHOOSE t \in TablesOf(s) : TRUE]
    /\ result = NoResult

\* the listing command run on any of the stores
InitList ==
    /\ StoreAtRest
    /\ catalog \in Catalogs
    /\ listing = NoListing
    /\ module = NoModule
    /\ info = NoInfo

NextList == \E user \in BOOLEAN : DumpAssets(user)

SpecList == InitList /\ [][NextList]_vars

\* get_module_size applied to any of the modules
InitSize ==
    /\ StoreAtRest
    /\ catalog = NoCatalog
    /\ listing = NoListing
    /\ module \in Modules
    /\ info = NoInfo

NextSize == MeasureModule

SpecSize == InitSize /\ [][NextSize]_vars

----------------------------------------------------------------------------
(* What the claims read off a state *)

CurStore == Store(user_metadata_providers, metadata_providers, fs)

\* the last operation was retrieve_card(name) with a name free of '@'
Retrieved ==
    /\ result.op = "retrieve_card"
    /\ \A i \in 1..Len(result.name) : result.name[i] # "@"

GotCard == Retrieved /\ result.kind = "card"

AllProviders ==
    {user_metadata_providers[i] : i \in 1..Len(user_metadata_providers)}
        \cup {metadata_providers[i] : i \in 1..Len(metadata_providers)}

\* some provider of either scope has a record for name
Known(name) == \E prov \in AllProviders : name \in DOMAIN Scan(prov, fs)

\* the name resolved at level i of the card in `result`
LevelName(i) == IF i = 1 THEN result.name ELSE result.card[i - 1]["base"].v

\* the environments of the last call, as a set of positions
EnvPositions == 1..Len(result.envs)

\* the record the layered lookup gives for name@envs[j]
Variant(name, j) == GetMetadata(EnvName(name, result.envs[j]), CurStore)

\* the positions whose variant of name defines field
Defining(name, field) ==
    {j \in EnvPositions : Variant(name, j).found /\ field \in DOMAIN Variant(name, j).md}

SetMax(S) == CHOOSE x \in S : \A y \in S : y <= x

SetMin(S) == CHOOSE x \in S : \A y \in S : x <= y

Fields == {"name", "base", "a", "b"}

\* AssetCard.field(key): own metadata first, then the nearest ancestor that has it
CardField(card, key) ==
    LET hits == {i \in 1..Len(card) : key \in DOMAIN card[i]}
    IN  IF hits = {}
        THEN [found |-> FALSE, val |-> NoneVal]
        ELSE [found |-> TRUE, val |-> card[SetMin(hits)][key]]

\* every name a lookup can be made for
LookupKeys == BareNames \cup {EnvName(n, e) : n \in BareNames, e \in {EnvProd, EnvUser}}

\* the positions of the providers of a list that have a record for key
HasIn(list, key) == {i \in 1..Len(list) : key \in DOMAIN Scan(list[i], fs)}

----------------------------------------------------------------------------
(* C1 *)

----------------------------------------------------------------------------
(* C2 *)

\* C2 as stated: every field (but 'name') of every active name@env record has
\* the variant's value in the merged card, and a field only the bare record
\* defines keeps the bare value.
C2_EveryVariantFieldWins ==
    GotCard =>
        LET merged == result.card[1]
            bare   == GetMetadata(result.name, CurStore).md
        IN  /\ \A j \in EnvPositions :
                   Variant(result.name, j).found =>
                       \A f \in DOMAIN Variant(result.name, j).md \ {"name"} :
                           f \in DOMAIN merged /\ merged[f] = Variant(result.name, j).md[f]
            /\ \A f \in DOMAIN bare :
                   Defining(result.name, f) = {}
                       => f \in DOMAIN merged /\ merged[f] = bare[f]

\* C2 amended: field by field, the merged card has the value of the last active
\* variant that defines the field (other than 'name'), and the bare record's
\* value for a field no active variant defines; it has no other field.
C2_FieldByField ==
    GotCard =>
        LET merged == result.card[1]
            bare   == GetMetadata(result.name, CurStore).md
            fields == DOMAIN bare \cup
                          UNION {DOMAIN Variant(result.name, j).md \ {"name"} :
                                     j \in {k \in EnvPositions : Variant(result.name, k).found}}
        IN  /\ DOMAIN merged = fields
            /\ \A f \in fields :
                   IF f # "name" /\ Defining(result.name, f) # {}
                   THEN merged[f] = Variant(result.name, SetMax(Defining(result.name, f))).md[f]
                   ELSE merged[f] = bare[f]

\* the bare record and an active variant both define a field, with different
\* values, and the bare record alone defines another
C2_Witness ==
    /\ GotCard
    /\ LET bare == GetMetadata(result.name, CurStore).md
       IN  /\ \E f \in DOMAIN bare \ {"name"} :
                  /\ Defining(result.name, f) # {}
                  /\ Variant(result.name, SetMax(Defining(result.name, f))).md[f] # bare[f]
           /\ \E f \in DOMAIN bare \ {"name"} : Defining(result.name, f) = {}

----------------------------------------------------------------------------
(* C3 *)

\* C3: at every level of a returned card, the merged 'name' is the 'name' of
\* the bare record of that level, whatever the name@env records carry.
C3_NameNeverLeaks ==
    GotCard =>
        \A i \in 1..Len(result.card) :
            /\ "name" \in DOMAIN result.card[i]
            /\ result.card[i]["name"] = GetMetadata(LevelName(i), CurStore).md["name"]
            /\ result.card[i]["name"] = Str(LevelName(i))

\* a variant whose 'name' differs from the bare one was merged into a returned card
C3_Witness ==
    /\ GotCard
    /\ \E j \in EnvPositions :
           /\ Variant(result.name, j).found
           /\ Variant(result.name, j).md["name"] = Str(EnvName(result.name, result.envs[j]))
           /\ \E f \in DOMAIN Variant(result.name, j).md \ {"name"} :
                  result.card[1][f] = Variant(result.name, j).md[f]

----------------------------------------------------------------------------
(* C4 *)

\* C4: when the merged record names a parent in 'base', the card returned has
\* the card of that parent as its parent, and a field lookup gives the child's
\* own value, else the value of the nearest ancestor that defines the field.
C4_BaseInheritance ==
    GotCard =>
        LET md == result.card[1]
        IN  ("base" \in DOMAIN md /\ md["base"].type = "str" /\ md["base"].v # <<>>) =>
                LET parent == DoRetrieveCard(md["base"].v, result.envs, 1, CurStore)
                IN  /\ Len(result.card) >= 2
                    /\ parent.kind = "card"
                    /\ Tail(result.card) = parent.card
                    /\ result.card[2]["name"] = md["base"]
                    /\ \A f \in Fields :
                           CardField(result.card, f) =
                               IF f \in DOMAIN md
                               THEN [found |-> TRUE, val |-> md[f]]
                               ELSE CardField(parent.card, f)

\* child m {a: 1, base: p} over parent p {a: 2, b: 3}: a is the child's 1, b the
\* parent's 3
C4_Witness ==
    /\ GotCard
    /\ result.name = NameM
    /\ Len(result.card) = 2
    /\ "b" \notin DOMAIN result.card[1]
    /\ result.card[1]["a"] = IntVal("1")
    /\ result.card[2]["a"] = IntVal("2")
    /\ CardField(result.card, "a").val = IntVal("1")
    /\ CardField(result.card, "b").val = IntVal("3")

----------------------------------------------------------------------------
(* C5 *)

\* C5: whenever a user-scope provider has a record for a name, the lookup
\* returns the record of a user-scope provider and asks no global-scope provider.
C5_UserScopePrecedence ==
    \A key \in LookupKeys :
        HasIn(user_metadata_providers, key) # {} =>
            LET got == GetMetadata(key, CurStore)
            IN  /\ got.found
                /\ \A j \in 1..Len(got.probes) : got.probes[j].scope = "user"
                /\ got.md \in {Scan(user_metadata_providers[i], fs)[key] :
                                   i \in HasIn(user_metadata_providers, key)}

\* a card was resolved from the user scope while every global-scope provider,
\* the constructor's and a later one, holds a different record for the name
C5_Witness ==
    /\ GotCard
    /\ HasIn(user_metadata_providers, result.name) # {}
    /\ Len(metadata_providers) >= 2
    /\ \A i \in 1..Len(metadata_providers) :
           /\ i \in HasIn(metadata_providers, result.name)
           /\ Scan(metadata_providers[i], fs)[result.name]
                  # GetMetadata(result.name, CurStore).md
    /\ result.card[1]["a"] = GetMetadata(result.name, CurStore).md["a"]

----------------------------------------------------------------------------
(* C6 *)

\* C6: the lookup returns exactly the record of the latest-registered provider,
\* of the scope that answers, that has the name; the constructor's provider is
\* the oldest of the global scope.
C6_MostRecentWins ==
    /\ Len(metadata_providers) >= 1
    /\ metadata_providers[1].kind = "package"
    /\ metadata_providers[1].path = "fairseq2.assets.cards"
    /\ \A key \in LookupKeys :
           LET got == GetMetadata(key, CurStore)
               inU == HasIn(user_metadata_providers, key)
               inG == HasIn(metadata_providers, key)
           IN  IF inU # {}
               THEN got.found /\ got.md = Scan(user_metadata_providers[SetMax(inU)], fs)[key]
               ELSE IF inG # {}
               THEN got.found /\ got.md = Scan(metadata_providers[SetMax(inG)], fs)[key]
               ELSE ~got.found

\* the constructor's provider and a later global-scope provider hold different
\* records for the name of a returned card, which has the later one's field
C6_Witness ==
    /\ GotCard
    /\ HasIn(user_metadata_providers, result.name) = {}
    /\ LET inG == HasIn(metadata_providers, result.name)
       IN  /\ 1 \in inG
           /\ SetMax(inG) > 1
           /\ Scan(metadata_providers[1], fs)[result.name]
                  # Scan(metadata_providers[SetMax(inG)], fs)[result.name]
           /\ result.card[1]["a"] = Scan(metadata_providers[SetMax(inG)], fs)[result.name]["a"]

----------------------------------------------------------------------------
(* C7 *)

\* what retrieve_card(name) gives in a store with these resolvers, providers and sources
ResolveIn(name, R, U, G, f) == DoRetrieveCard(name, ResolveEnvs(R), 1, Store(U, G, f))

\* the part of an outcome the caller sees
View(out) == <<out.kind, out.card, out.who>>

\* the same providers, none of which has scanned its source
Unscanned(list) == [i \in 1..Len(list) |-> NewProvider(list[i].kind, list[i].path)]

\* every provider asked by the get_metadata calls in probes has scanned already
AllAskedLoaded(probes) ==
    \A j \in 1..Len(probes) :
        IF probes[j].scope = "user"
        THEN user_metadata_providers[probes[j].idx].loaded
        ELSE metadata_providers[probes[j].idx].loaded

\* C7: clear_cache reaches every provider of both scopes, so that right after it
\* retrieve_card sees the sources as they are now; a change of a source alone
\* changes nothing retrieve_card returns from providers that have scanned; and
\* no other operation drops what a provider has scanned.
C7_ClearCacheControlsStaleness ==
    [][ /\ ClearCache =>
               /\ \A i \in 1..Len(metadata_providers') : ~metadata_providers'[i].loaded
               /\ \A i \in 1..Len(user_metadata_providers') :
                      ~user_metadata_providers'[i].loaded
               /\ \A n \in BareNames :
                      View(ResolveIn(n, env_resolvers', user_metadata_providers',
                                     metadata_providers', fs'))
                          = View(ResolveIn(n, env_resolvers', Unscanned(user_metadata_providers'),
                                           Unscanned(metadata_providers'), fs'))
        /\ fs' # fs =>
               \A n \in BareNames :
                   LET before == ResolveIn(n, env_resolvers, user_metadata_providers,
                                           metadata_providers, fs)
                   IN  AllAskedLoaded(before.probes) =>
                           View(ResolveIn(n, env_resolvers', user_metadata_providers',
                                          metadata_providers', fs')) = View(before)
        /\ ~ClearCache =>
               /\ \A i \in 1..Len(metadata_providers) :
                      metadata_providers[i].loaded => metadata_providers'[i] = metadata_providers[i]
               /\ \A i \in 1..Len(user_metadata_providers) :
                      user_metadata_providers[i].loaded =>
                          user_metadata_providers'[i] = user_metadata_providers[i]
      ]_vars

\* retrieve_card returned a card from a user-scope provider whose scan is older
\* than its source: the card is not the one the sources of now would give
C7_Witness ==
    /\ GotCard
    /\ \E i \in 1..Len(user_metadata_providers) :
           /\ user_metadata_providers[i].loaded
           /\ user_metadata_providers[i].cache # fs[user_metadata_providers[i].path]
    /\ View(result) # View(ResolveIn(result.name, env_resolvers,
                                     Unscanned(user_metadata_providers),
                                     Unscanned(metadata_providers), fs))

----------------------------------------------------------------------------
(* C8 *)

\* C8: retrieve_card of a name with '@' fails with the invalid-argument error
\* (ValueError), asks no resolver and no provider, and changes nothing in the store.
C8_ReservedCharacterRejected ==
    [][ (/\ result'.op = "retrieve_card"
         /\ \E i \in 1..Len(result'.name) : result'.name[i] = "@")
            => /\ result'.kind = "ValueError"
               /\ result'.probes = <<>>
               /\ result'.envs = <<>>
               /\ UNCHANGED <<env_resolvers, metadata_providers, user_metadata_providers, fs>>
      ]_vars

\* the call was refused in a store that has a resolver and a provider yet to scan
C8_Witness ==
    /\ result.op = "retrieve_card"
    /\ \E i \in 1..Len(result.name) : result.name[i] = "@"
    /\ result.kind = "ValueError"
    /\ Len(env_resolvers) > 0
    /\ \E prov \in AllProviders : ~prov.loaded

----------------------------------------------------------------------------
(* C9 *)

\* the merged metadata of name under the environments of the last call
MergedOf(name) ==
    LET got == GetMetadata(name, CurStore)
    IN  IF got.found
        THEN MergeEnvs(got.md, name, result.envs, 1, CurStore).md
        ELSE NoFields

\* the first name on the base chain from name whose merged 'base' is not a
\* string; <<>> when the chain ends, or comes back to a name, before one
RECURSIVE FirstNonStringBase(_, _)
FirstNonStringBase(name, seen) ==
    LET md == MergedOf(name)
    IN  IF name \in seen \/ "base" \notin DOMAIN md
        THEN <<>>
        ELSE IF md["base"].type # "str"
        THEN name
        ELSE IF md["base"].v = <<>>
        THEN <<>>
        ELSE FirstNonStringBase(md["base"].v, seen \cup {name})

\* C9 as stated: a merged 'base' that is not a string, falsy or not, at any
\* level of the chain makes retrieve_card fail with the card error naming that card.
C9_NonStringBaseRaises ==
    Retrieved =>
        LET bad == FirstNonStringBase(result.name, {})
        IN  bad # <<>> => (result.kind = "AssetCardError" /\ result.who = bad)

----------------------------------------------------------------------------
(* C10 *)

\* the base chain from name comes back to a name it has passed
RECURSIVE ChainRevisits(_, _)
ChainRevisits(name, seen) ==
    LET md == MergedOf(name)
    IN  IF name \in seen
        THEN TRUE
        ELSE IF "base" \notin DOMAIN md \/ md["base"].type # "str" \/ md["base"].v = <<>>
        THEN FALSE
        ELSE ChainRevisits(md["base"].v, seen \cup {name})

\* C10 as stated: on a circular base chain retrieve_card fails with the card error.
C10_CircularBaseRaisesCardError ==
    (Retrieved /\ ChainRevisits(result.name, {})) => result.kind = "AssetCardError"

----------------------------------------------------------------------------
(* C11 *)

\* what the registered resolvers give, in registration order, None and ""
\* left out
ResolverEnvs ==
    LET kept == SelectSeq(env_resolvers, LAMBDA r : r.type = "str" /\ r.v # <<>>)
    IN  [i \in 1..Len(kept) |-> kept[i].v]

----------------------------------------------------------------------------
(* C12 *)

\* C12 as stated: retrieve_card called with the ignore-environment flag set
\* resolves the name and its ancestors from the bare records alone, as a
\* resolution with an empty environment list does.
C12_IgnoreEnvsUsesBareRecordsOnly ==
    [][\A name \in BareNames :
           RetrieveCardIgnoreEnvs(name, TRUE) =>
               View(result') = View(DoRetrieveCard(name, <<>>, 1, CurStore))]_vars

----------------------------------------------------------------------------
(* C13 *)

\* the name@env lookups a call made, as the set of the names asked for
ProbedVariants == {result.probes[j].key : j \in 1..Len(result.probes)} \ BareNames

----------------------------------------------------------------------------
(* C14 *)

\* C14: a name@env lookup that finds nothing is dropped: the error the caller
\* gets never names a name@env, every environment after a missing one is still
\* looked up and, when it has a record, merged; a bare name without a record
\* gives the not-found error naming it.
C14_MissingVariantIsSkipped ==
    (Retrieved /\ result.kind # "ValueError") =>
        /\ \A i \in 1..Len(result.who) : result.who[i] # "@"
        /\ ~GetMetadata(result.name, CurStore).found =>
               (result.kind = "AssetNotFoundError" /\ result.who = result.name)
        /\ GotCard =>
               \A j \in EnvPositions :
                   ~Variant(result.name, j).found =>
                       \A k \in EnvPositions :
                           k > j =>
                               /\ EnvName(result.name, result.envs[k]) \in ProbedVariants
                               /\ Variant(result.name, k).found =>
                                      \A f \in DOMAIN Variant(result.name, k).md \ {"name"} :
                                          SetMax(Defining(result.name, f)) = k =>
                                              result.card[1][f] = Variant(result.name, k).md[f]

\* the first environment of the list has no record for the name, a later one
\* has, and its field is in the card
C14_Witness ==
    /\ GotCard
    /\ \E j, k \in EnvPositions :
           /\ j < k
           /\ ~Variant(result.name, j).found
           /\ Variant(result.name, k).found
           /\ \E f \in DOMAIN Variant(result.name, k).md \ {"name"} :
                  /\ result.card[1][f] = Variant(result.name, k).md[f]
                  /\ f \in DOMAIN GetMetadata(result.name, CurStore).md
                  /\ result.card[1][f] # GetMetadata(result.name, CurStore).md[f]

----------------------------------------------------------------------------
(* C19 *)

\* the 'base' of name once every variant of the last call's list is applied:
\* that of the last variant defining one, else the bare record's, else None
BaseAfterVariants(name) ==
    LET bare == GetMetadata(name, CurStore).md
    IN  IF Defining(name, "base") # {}
        THEN Variant(name, SetMax(Defining(name, "base"))).md["base"]
        ELSE IF "base" \in DOMAIN bare THEN bare["base"] ELSE NoneVal

\* C19: the parent is resolved from the 'base' left after the variants are
\* applied: when that is a non-empty string the call ends as the resolution of
\* that parent does, with the parent's card behind the merged record; and a
\* returned card has a parent exactly when that 'base' is a non-empty string.
C19_ParentFromMergedBase ==
    (Retrieved /\ GetMetadata(result.name, CurStore).found) =>
        LET base   == BaseAfterVariants(result.name)
            string == base.type = "str" /\ base.v # <<>>
        IN  /\ string =>
                   LET parent == DoRetrieveCard(base.v, result.envs, 2, CurStore)
                   IN  /\ result.kind = parent.kind
                       /\ result.kind # "card" => result.who = parent.who
                       /\ result.kind = "card" => Tail(result.card) = parent.card
            /\ GotCard => (Len(result.card) >= 2 <=> string)

\* the bare record and a variant name different parents, and the card's parent
\* is the variant's
C19_Witness ==
    /\ GotCard
    /\ Len(result.card) >= 2
    /\ Defining(result.name, "base") # {}
    /\ LET bare == GetMetadata(result.name, CurStore).md
       IN  /\ "base" \in DOMAIN bare
           /\ bare["base"] # BaseAfterVariants(result.name)
           /\ result.card[2]["name"] = BaseAfterVariants(result.name)

----------------------------------------------------------------------------
(* C16 *)

\* C16: the same call made again right after a retrieve_card gives the same
\* outcome; and a retrieve_card leaves every record every provider answers
\* from as it was, the 'name' of the name@env records included.
C16_RepeatableAndNonCorrupting ==
    /\ [](  (Retrieved /\ result.kind # "ValueError") =>
                View(result) = View(ResolveIn(result.name, env_resolvers,
                                              user_metadata_providers,
                                              metadata_providers, fs)))
    /\ [][ result'.op = "retrieve_card" =>
               /\ \A i \in 1..Len(metadata_providers) :
                      Scan(metadata_providers'[i], fs') = Scan(metadata_providers[i], fs)
               /\ \A i \in 1..Len(user_metadata_providers) :
                      Scan(user_metadata_providers'[i], fs')
                          = Scan(user_metadata_providers[i], fs)
               /\ \A prov \in {metadata_providers'[i] : i \in 1..Len(metadata_providers')}
                               \cup {user_metadata_providers'[i] :
                                         i \in 1..Len(user_metadata_providers')} :
                      \A k \in DOMAIN prov.cache :
                          "name" \in DOMAIN prov.cache[k] /\ prov.cache[k]["name"] = Str(k)
      ]_vars

\* a card was returned with a name@env record merged in, by a provider that now
\* answers from its cache
C16_Witness ==
    /\ GotCard
    /\ \E prov \in AllProviders :
           /\ prov.loaded
           /\ \E k \in DOMAIN prov.cache \cap ProbedVariants :
                  \E f \in DOMAIN prov.cache[k] \ {"name"} :
                      f \in DOMAIN result.card[1] /\ result.card[1][f] = prov.cache[k][f]

----------------------------------------------------------------------------
(* C20 *)

\* the same providers in the same order, whatever they have scanned
SameProviders(l1, l2) ==
    /\ Len(l1) = Len(l2)
    /\ \A i \in 1..Len(l1) : l1[i].kind = l2[i].kind /\ l1[i].path = l2[i].path

\* l2 is l1 with one provider of this kind and path, yet to scan, added last
OneAppended(l1, l2, kind, path) ==
    /\ Len(l2) = Len(l1) + 1
    /\ SubSeq(l2, 1, Len(l1)) = l1
    /\ l2[Len(l2)] = [kind |-> kind, path |-> path, loaded |-> FALSE, cache |-> EmptyTable]

\* C20: add_file_metadata_provider adds one provider at the end of the list of
\* the scope asked for and leaves the other list and the resolvers alone;
\* add_package_metadata_provider does so for the global list; retrieve_card,
\* succeeding or failing, and clear_cache leave the providers of both lists and
\* the resolvers the same and in the same order; no step removes or reorders.
C20_ListsOnlyGrowByAppending ==
    [][ /\ \A path \in Dirs, user \in BOOLEAN :
               AddFileMetadataProvider(path, user) =>
                   /\ env_resolvers' = env_resolvers
                   /\ IF user
                      THEN /\ OneAppended(user_metadata_providers,
                                          user_metadata_providers', "file", path)
                           /\ metadata_providers' = metadata_providers
                      ELSE /\ OneAppended(metadata_providers,
                                          metadata_providers', "file", path)
                           /\ user_metadata_providers' = user_metadata_providers
        /\ \A package_name \in Packages :
               AddPackageMetadataProvider(package_name) =>
                   /\ OneAppended(metadata_providers, metadata_providers',
                                  "package", package_name)
                   /\ user_metadata_providers' = user_metadata_providers
                   /\ env_resolvers' = env_resolvers
        /\ (ClearCache \/ result'.op \in {"retrieve_card", "retrieve_card(ignore_envs)"}) =>
               /\ SameProviders(metadata_providers, metadata_providers')
               /\ SameProviders(user_metadata_providers, user_metadata_providers')
               /\ env_resolvers' = env_resolvers
        /\ Len(metadata_providers') >= Len(metadata_providers)
        /\ SameProviders(metadata_providers,
                         SubSeq(metadata_providers', 1, Len(metadata_providers)))
        /\ Len(user_metadata_providers') >= Len(user_metadata_providers)
        /\ SameProviders(user_metadata_providers,
                         SubSeq(user_metadata_providers', 1, Len(user_metadata_providers)))
        /\ Len(env_resolvers') >= Len(env_resolvers)
        /\ SubSeq(env_resolvers', 1, Len(env_resolvers)) = env_resolvers
      ]_vars

\* a retrieve_card failed in a store with a directory provider in each scope,
\* added in that order after the constructor's provider
C20_Witness ==
    /\ Retrieved
    /\ result.kind \notin {"card", "ValueError"}
    /\ SameProviders(user_metadata_providers, <<NewProvider("file", "/etc/fairseq2/assets")>>)
    /\ SameProviders(metadata_providers,
                     <<NewProvider("package", "fairseq2.assets.cards"),
                       NewProvider("file", "/etc/fairseq2/assets")>>)

----------------------------------------------------------------------------
(* C15 *)

\* the provider a get_metadata call of the last retrieve_card went to
ProbedProvider(j) ==
    IF result.probes[j].scope = "user"
    THEN user_metadata_providers[result.probes[j].idx]
    ELSE metadata_providers[result.probes[j].idx]

\* C15: a resolver that raises makes retrieve_card fail with that error before
\* any provider is asked; a provider whose scan fails with the configuration
\* error makes retrieve_card fail with that error at that lookup, whichever
\* name it was for, with no provider asked after it; no card comes back in
\* either case, and the configuration error comes from nowhere else.
C15_OtherErrorsPropagate ==
    (Retrieved /\ result.kind # "ValueError") =>
        IF \E i \in 1..Len(env_resolvers) : env_resolvers[i].type = "raises"
        THEN result.kind = "ResolverError" /\ result.card = <<>> /\ result.probes = <<>>
        ELSE /\ \A j \in 1..Len(result.probes) :
                    Broken(ProbedProvider(j), fs) =>
                        /\ j = Len(result.probes)
                        /\ result.kind = "AssetMetadataError"
                        /\ result.card = <<>>
             /\ result.kind = "AssetMetadataError" =>
                    /\ result.probes # <<>>
                    /\ Broken(ProbedProvider(Len(result.probes)), fs)
             /\ result.kind # "ResolverError"

\* the bare name was found, and the configuration error came from a later
\* lookup of the call (a name@env or an ancestor), in a provider that has
\* providers of lower priority behind it
C15_Witness ==
    /\ Retrieved
    /\ result.kind = "AssetMetadataError"
    /\ Len(result.probes) >= 2
    /\ result.probes[Len(result.probes)].key # result.name
    /\ \E j \in 1..(Len(result.probes) - 1) :
           /\ result.probes[j].key = result.name
           /\ ~Broken(ProbedProvider(j), fs)
    /\ \/ result.probes[Len(result.probes)].scope = "user"
       \/ result.probes[Len(result.probes)].idx > 1

----------------------------------------------------------------------------
(* C17 *)

\* where a name stands in a listing, as <<group, position>> pairs
PlacesOf(name, groups) ==
    {<<g, k>> \in (1..Len(groups)) \X (1..MaxNames + 1) :
         k <= Len(groups[g][2]) /\ groups[g][2][k] = name}

\* C17 as stated: the listing of a scope puts every name of retrieve_names
\* under exactly one source, the sources in ascending order, and the names
\* under each source in ascending order of the whole name.
C17_GroupedAndSortedByFullName ==
    listing.op = "_dump_assets" =>
        LET names  == RetrieveNames(catalog, listing.user)
            groups == listing.groups
        IN  /\ \A i \in 1..Len(names) : Cardinality(PlacesOf(names[i], groups)) = 1
            /\ \A g \in 1..Len(groups) :
                   \A k \in 1..Len(groups[g][2]) :
                       \E i \in 1..Len(names) : names[i] = groups[g][2][k]
            /\ \A g, h \in 1..Len(groups) :
                   g < h => StrLess(groups[g][1], groups[h][1])
            /\ \A g \in 1..Len(groups) :
                   \A k, l \in 1..Len(groups[g][2]) :
                       k < l => StrLess(groups[g][2][k], groups[g][2][l])

----------------------------------------------------------------------------
(* C18 *)

\* the bytes the first n buffers take: numel times the buffer's element size
RECURSIVE BufferBytes(_, _)
BufferBytes(buffers, n) ==
    IF n = 0
    THEN 0
    ELSE BufferBytes(buffers, n - 1) + buffers[n].numel * buffers[n].element_size

\* C18 as stated: get_module_size returns, for every module, buffer_size_bytes
\* as the sum of numel times element size over the buffers, total_size_bytes
\* as param_size_bytes plus buffer_size_bytes, and total_size as param_size
\* plus buffer_size.
C18_ByteTotalsAsDocumented ==
    info.kind # "none" =>
        /\ info.kind = "ModuleSizeInfo"
        /\ info.size.buffer_size_bytes = BufferBytes(module.buffers, Len(module.buffers))
        /\ info.size.total_size_bytes =
               info.size.param_size_bytes + info.size.buffer_size_bytes
        /\ info.size.total_size = info.size.param_size + info.size.buffer_size

====
